---- MODULE Spec2Model ----
(***************************************************************************)
(* Ant colony optimisation for the quadratic assignment problem            *)
(* (src/main.py): the AntColony run loop, the Ant path construction, the   *)
(* fitness evaluation and the pheromone deposit, as a state machine.       *)
(*                                                                         *)
(* Pheromone values are exact rationals <<numerator, denominator>> in      *)
(* lowest terms.  Python lists are objects: `heap` maps a list reference   *)
(* to the list's content, an ant's `path` and the run's `best_path` hold   *)
(* references.  The random draws (np.random.random, np.random.choice) are  *)
(* nondeterministic choices.                                               *)
(***************************************************************************)
EXTENDS Integers, Sequences, FiniteSets, TLC

\* ------------------------------------------------------------------ bounds
MaxAnts == 5
MaxNodes == 2
MaxEvaluations == 3
LongRun == 13
MaxEvaporations == 1
MaxSeed == 1

\* ---------------------------------------------------------- Python values
None == -1
NoPath == 0

\* --------------------------------------------------------------- rationals
RECURSIVE GCD(_, _)
GCD(a, b) == IF b = 0 THEN a ELSE GCD(b, a % b)

Rat(n, d) == LET g == GCD(n, d) IN <<n \div g, d \div g>>

Zero == <<0, 1>>

RAdd(x, y) == Rat(x[1] * y[2] + y[1] * x[2], x[2] * y[2])

RMul(x, y) == Rat(x[1] * y[1], x[2] * y[2])

RECURSIVE RSum(_, _)
RSum(w, n) == IF n < 0 THEN Zero ELSE RAdd(w[n], RSum(w, n - 1))

\* ------------------------------------------------------------------ inputs
\* evaporation_rate values handed to the constructor
Rates == {<<0, 1>>, <<1, 2>>, <<3, 2>>}

\* outcomes of np.random.random(), a float in [0, 1)
RandomValues == <<<<1, 2>>, <<1, 4>>, <<3, 4>>>>

Kinds == {"flow", "zero"}

\* a problem instance (N, D, F) as FileReader.getData returns it; D and F
\* are indexed from 0 as in the code
Data(n, kind) ==
    [N |-> n,
     D |-> [r \in 0..(n - 1) |-> [c \in 0..(n - 1) |->
               IF kind = "zero" THEN 0 ELSE r + 2 * c + 1]],
     F |-> [r \in 0..(n - 1) |-> [c \in 0..(n - 1) |-> 2 * r + c + 1]]]

\* the budgets run is called with: up to LongRun steps when the paths are
\* forced (N <= 1), up to MaxEvaluations steps otherwise
Budgets(n) == IF n <= 1 THEN 0..LongRun ELSE 0..MaxEvaluations

\* ------------------------------------------------------ AntColony.__init__
InitialPheromones(n, seed) ==
    [r \in 0..n |-> [c \in 0..n |->
        IF r # c THEN RandomValues[((r * (n + 1) + c + seed) % 3) + 1] ELSE Zero]]

\* ------------------------------------------- AntColony.evaporatePheromones
Evaporated(ph, rate) ==
    [r \in DOMAIN ph |-> [c \in DOMAIN ph[r] |-> RMul(ph[r][c], rate)]]

\* ------------------------------------------------------- Ant.calculatePath
AllowedNodes_all(n) == [c \in 0..n |-> 1]

\* allowed_nodes at the start of a construction: every node but node 0
AllowedNodes(n) == [c \in 0..n |-> IF c # 0 THEN 1 ELSE 0]

\* -------------------------------------------------------- Ant.chooseNextNode
NextNodeWeightings(ph, current, allowed) ==
    [c \in DOMAIN allowed |-> RMul(ph[current][c], <<allowed[c], 1>>)]

\* the weightings sum to zero: the division yields NaN probabilities and
\* np.random.choice raises ValueError
DegenerateWeightings(ph, n, current, allowed) ==
    RSum(NextNodeWeightings(ph, current, allowed), n) = Zero

\* the nodes np.random.choice can return: those of nonzero probability
ChooseNextNode(ph, current, allowed) ==
    {c \in DOMAIN allowed : NextNodeWeightings(ph, current, allowed)[c][1] > 0}

\* the outcomes of the loop of calculatePath with `left` iterations to go:
\* the list built, and whether the construction returned (ok) or raised
RECURSIVE BuildPath(_, _, _, _, _, _)
BuildPath(ph, n, current, allowed, path, left) ==
    IF left = 0 THEN {[path |-> path, ok |-> TRUE]}
    ELSE IF DegenerateWeightings(ph, n, current, allowed)
         THEN {[path |-> path, ok |-> FALSE]}
    ELSE UNION {BuildPath(ph, n, c, [allowed EXCEPT ![c] = 0],
                          Append(path, c), left - 1) :
                c \in ChooseNextNode(ph, current, allowed)}

CalculatePath(ph, n) == BuildPath(ph, n, 0, AllowedNodes(n), <<>>, n)

\* `self.path = []` binds a new list object at every construction; the
\* object made at step `step` (counting from 1) is named by that number
AllocPath_reuse(a, step) == a + 1

AllocPath(a, step) == step

\* ------------------------------------------------- Ant.calculatePathFitness
\* list[idx] of Python: a negative index counts from the end of the list
ListItem(list, idx) ==
    IF idx < 0 THEN list[idx + Cardinality(DOMAIN list)] ELSE list[idx]

RECURSIVE FitnessSum(_, _, _, _)
FitnessSum(path, D, F, t) ==
    IF t < 0 THEN 0
    ELSE LET r == t \div Len(path)
             c == t % Len(path)
         IN  D[r][c] * ListItem(ListItem(F, path[r + 1] - 1), path[c + 1] - 1)
             + FitnessSum(path, D, F, t - 1)

CalculatePathFitness(path, D, F) ==
    FitnessSum(path, D, F, Len(path) * Len(path) - 1)

\* ---------------------------------------------------- Ant.updatePheromones
PheromoneAmount(fitness) == Rat(1, fitness)

AddPheromone(ph, r, c, amount) ==
    [ph EXCEPT ![r][c] = RAdd(ph[r][c], amount)]

\* the loop over range(0, len(path) - 1), from index t (0-based) on
RECURSIVE DepositEdges(_, _, _, _)
DepositEdges(ph, path, amount, t) ==
    IF t > Len(path) - 2 THEN ph
    ELSE DepositEdges(AddPheromone(ph, path[t + 1], path[t + 2], amount),
                      path, amount, t + 1)

RECURSIVE DepositEdgesBothWays(_, _, _, _)
DepositEdgesBothWays(ph, path, amount, t) ==
    IF t > Len(path) - 2 THEN ph
    ELSE DepositEdgesBothWays(
             AddPheromone(AddPheromone(ph, path[t + 1], path[t + 2], amount),
                          path[t + 2], path[t + 1], amount),
             path, amount, t + 1)

UpdatedPheromones_bothWays(ph, path, fitness) ==
    DepositEdgesBothWays(AddPheromone(ph, 0, path[1], PheromoneAmount(fitness)),
                         path, PheromoneAmount(fitness), 0)

UpdatedPheromones(ph, path, fitness) ==
    DepositEdges(AddPheromone(ph, 0, path[1], PheromoneAmount(fitness)),
                 path, PheromoneAmount(fitness), 0)

\* ------------------------------------------------------------ AntColony.run
\* line 42: the batch is complete
BatchComplete(ant_no, m) == ant_no > m - 2

\* lines 45 and 48: ant_number is reset to 0 and then incremented
AntNumberAfterCycle == 0 + 1

\* line 46 names the bound method evaporatePheromones and does not call it
EvaporationInRun(ph, rate) == ph

\* lines 36-38
BetterFitness(fitness, best) == best = None \/ fitness < best

VARIABLES
    number_of_ants, evaporation_rate, number_of_nodes,
    distance_matrix, flow_matrix,
    pheromone_matrix,
    pc,                   \* position of the program
    fitness_evaluations,  \* the argument of run
    i,                    \* the loop variable of run, steps completed
    ant_number,
    ants,                 \* ants[a] = [path: list reference, fitness]
    heap,                 \* list reference -> content of the list
    best_fitness, best_path, results,
    ant,                  \* position of `for ant in ants`
    built,                \* history: [ant, path] of every calculatePath return
    cycles,               \* history: the step each reinforcement cycle follows
    evaporations          \* calls of evaporatePheromones made by the caller

vars == <<number_of_ants, evaporation_rate, number_of_nodes, distance_matrix,
          flow_matrix, pheromone_matrix, pc, fitness_evaluations, i,
          ant_number, ants, heap, best_fitness, best_path, results, ant,
          built, cycles, evaporations>>

colony == <<number_of_ants, evaporation_rate, number_of_nodes,
            distance_matrix, flow_matrix>>

Errors == {"IndexError", "ValueError", "ZeroDivisionError", "TypeError"}

\* the state after AntColony(number_of_ants, evaporation_rate, data)
Init ==
    /\ number_of_ants \in 0..MaxAnts
    /\ evaporation_rate \in Rates
    /\ \E n \in 0..MaxNodes, kind \in Kinds, seed \in 0..MaxSeed :
          /\ number_of_nodes = Data(n, kind).N
          /\ distance_matrix = Data(n, kind).D
          /\ flow_matrix = Data(n, kind).F
          /\ pheromone_matrix = InitialPheromones(n, seed)
    /\ pc = "constructed"
    /\ fitness_evaluations = 0
    /\ i = 0
    /\ ant_number = 0
    /\ ants = <<>>
    /\ heap = <<>>
    /\ best_fitness = None
    /\ best_path = NoPath
    /\ results = <<>>
    /\ ant = 0
    /\ built = <<>>
    /\ cycles = <<>>
    /\ evaporations = 0

\* the caller calls colony.evaporatePheromones()
EvaporatePheromones ==
    /\ pc \in {"constructed", "done"}
    /\ evaporations < MaxEvaporations
    /\ pheromone_matrix' = Evaporated(pheromone_matrix, evaporation_rate)
    /\ evaporations' = evaporations + 1
    /\ UNCHANGED <<colony, pc, fitness_evaluations, i, ant_number, ants, heap,
                   best_fitness, best_path, results, ant, built, cycles>>

\* run(k), lines 20-32
Run ==
    /\ pc = "constructed"
    /\ \E k \in Budgets(number_of_nodes) : fitness_evaluations' = k
    /\ ants' = [a \in 0..(number_of_ants - 1) |-> [path |-> NoPath, fitness |-> None]]
    /\ best_fitness' = None
    /\ best_path' = NoPath
    /\ results' = <<>>
    /\ ant_number' = 0
    /\ i' = 0
    /\ pc' = "loop"
    /\ UNCHANGED <<colony, pheromone_matrix, heap, ant, built, cycles, evaporations>>

\* line 34: ants[ant_number] with ant_number outside the list
EvaluateIndexError ==
    /\ pc = "loop"
    /\ i < fitness_evaluations
    /\ ant_number \notin DOMAIN ants
    /\ pc' = "IndexError"
    /\ UNCHANGED <<colony, pheromone_matrix, fitness_evaluations, i, ant_number,
                   ants, heap, best_fitness, best_path, results, ant, built,
                   cycles, evaporations>>

\* line 34: calculatePath raises in chooseNextNode, the list built so far
\* stays bound to the ant
EvaluateValueError ==
    /\ pc = "loop"
    /\ i < fitness_evaluations
    /\ ant_number \in DOMAIN ants
    /\ \E out \in CalculatePath(pheromone_matrix, number_of_nodes) :
          LET ref == AllocPath(ant_number, i + 1)
          IN  /\ ~out.ok
              /\ heap' = [r \in DOMAIN heap \cup {ref} |->
                             IF r = ref THEN out.path ELSE heap[r]]
              /\ ants' = [ants EXCEPT ![ant_number].path = ref]
    /\ pc' = "ValueError"
    /\ UNCHANGED <<colony, pheromone_matrix, fitness_evaluations, i, ant_number,
                   best_fitness, best_path, results, ant, built, cycles,
                   evaporations>>

\* lines 34-42 and 48: one evaluation step
Evaluate ==
    /\ pc = "loop"
    /\ i < fitness_evaluations
    /\ ant_number \in DOMAIN ants
    /\ \E out \in CalculatePath(pheromone_matrix, number_of_nodes) :
          LET ref == AllocPath(ant_number, i + 1)
              fitness == CalculatePathFitness(out.path, distance_matrix, flow_matrix)
          IN  /\ out.ok
              /\ heap' = [r \in DOMAIN heap \cup {ref} |->
                             IF r = ref THEN out.path ELSE heap[r]]
              /\ ants' = [ants EXCEPT ![ant_number] = [path |-> ref, fitness |-> fitness]]
              /\ built' = Append(built, [ant |-> ant_number, path |-> out.path])
              /\ IF BetterFitness(fitness, best_fitness)
                 THEN best_fitness' = fitness /\ best_path' = ref
                 ELSE UNCHANGED <<best_fitness, best_path>>
              /\ results' = Append(results, fitness)
    /\ IF BatchComplete(ant_number, number_of_ants)
       THEN /\ pc' = "update"
            /\ ant' = 0
            /\ cycles' = Append(cycles, i + 1)
            /\ UNCHANGED <<ant_number, i>>
       ELSE /\ ant_number' = ant_number + 1
            /\ i' = i + 1
            /\ UNCHANGED <<pc, ant, cycles>>
    /\ UNCHANGED <<colony, pheromone_matrix, fitness_evaluations, evaporations>>

\* lines 43-44: the next ant of the list deposits
UpdatePheromones ==
    /\ pc = "update"
    /\ ants[ant].fitness # 0
    /\ pheromone_matrix' = UpdatedPheromones(pheromone_matrix, heap[ants[ant].path],
                                             ants[ant].fitness)
    /\ ant' = ant + 1
    /\ pc' = IF ant + 1 = number_of_ants THEN "endcycle" ELSE "update"
    /\ UNCHANGED <<colony, fitness_evaluations, i, ant_number, ants, heap,
                   best_fitness, best_path, results, built, cycles, evaporations>>

\* line 118: 1 / self.fitness with fitness 0
UpdatePheromonesZeroDivision ==
    /\ pc = "update"
    /\ ants[ant].fitness = 0
    /\ pc' = "ZeroDivisionError"
    /\ UNCHANGED <<colony, pheromone_matrix, fitness_evaluations, i, ant_number,
                   ants, heap, best_fitness, best_path, results, ant, built,
                   cycles, evaporations>>

\* lines 45-48: the end of the cycle
EndCycle ==
    /\ pc = "endcycle"
    /\ ant_number' = AntNumberAfterCycle
    /\ pheromone_matrix' = EvaporationInRun(pheromone_matrix, evaporation_rate)
    /\ i' = i + 1
    /\ pc' = "loop"
    /\ UNCHANGED <<colony, fitness_evaluations, ants, heap, best_fitness,
                   best_path, results, ant, built, cycles, evaporations>>

\* line 51: the loop is over, the result is printed
Finish ==
    /\ pc = "loop"
    /\ i = fitness_evaluations
    /\ best_fitness # None
    /\ pc' = "done"
    /\ UNCHANGED <<colony, pheromone_matrix, fitness_evaluations, i, ant_number,
                   ants, heap, best_fitness, best_path, results, ant, built,
                   cycles, evaporations>>

\* line 51: format(None, ',d') after a run of no step
FinishTypeError ==
    /\ pc = "loop"
    /\ i = fitness_evaluations
    /\ best_fitness = None
    /\ pc' = "TypeError"
    /\ UNCHANGED <<colony, pheromone_matrix, fitness_evaluations, i, ant_number,
                   ants, heap, best_fitness, best_path, results, ant, built,
                   cycles, evaporations>>

Next ==
    \/ EvaporatePheromones
    \/ Run
    \/ EvaluateIndexError
    \/ EvaluateValueError
    \/ Evaluate
    \/ UpdatePheromones
    \/ UpdatePheromonesZeroDivision
    \/ EndCycle
    \/ Finish
    \/ FinishTypeError

Spec == Init /\ [][Next]_vars

\* ================================================================== claims
RLeq(x, y) == x[1] * y[2] <= y[1] * x[2]

Min(seq) == CHOOSE v \in {seq[t] : t \in 1..Len(seq)} :
                \A t \in 1..Len(seq) : v <= seq[t]

FirstIndex(seq, v) == CHOOSE t \in 1..Len(seq) :
                          seq[t] = v /\ \A u \in 1..(t - 1) : seq[u] # v

IsPermutation(path, n) ==
    /\ Len(path) = n
    /\ {path[t] : t \in 1..Len(path)} = 1..n

\* the step after which the cycle before the latest one took place
PreviousCycle == IF Len(cycles) > 1 THEN cycles[Len(cycles) - 1] ELSE 0

\* the entries updatePheromones adds to: (0, p[0]) and (p[t], p[t+1])
ForwardEdges(path) ==
    {<<0, path[1]>>} \cup {<<path[t], path[t + 1]>> : t \in 1..(Len(path) - 1)}

BothWayEdges(path) ==
    ForwardEdges(path) \cup {<<path[t + 1], path[t]>> : t \in 1..(Len(path) - 1)}

\* a step of updatePheromones that returned
Deposited == pc = "update" /\ ant' = ant + 1

DepositedOn(edges) ==
    LET amount == PheromoneAmount(ants[ant].fitness)
    IN  \A r \in 0..number_of_nodes, c \in 0..number_of_nodes :
           /\ pheromone_matrix'[r][c] =
                 IF <<r, c>> \in edges
                 THEN RAdd(pheromone_matrix[r][c], amount)
                 ELSE pheromone_matrix[r][c]
           /\ RLeq(pheromone_matrix[r][c], pheromone_matrix'[r][c])

\* C1: for every ant count m > 0 and budget k > 0, run(k) never fails on the
\* index of the ant to use, never performs more than k steps, and when it
\* has finished results holds exactly k entries, one per calculatePath.
\* (Runs that end in ValueError or ZeroDivisionError are the matter of C6
\* and C8.)
C1_RunPerformsAllSteps ==
    (number_of_ants > 0 /\ fitness_evaluations > 0) =>
        /\ pc # "IndexError"
        /\ Len(results) <= fitness_evaluations
        /\ Len(built) = Len(results)
        /\ pc = "done" => Len(results) = fitness_evaluations

\* C2: the reinforcement cycles of run(k) with m ants follow exactly the
\* steps m, 2m, 3m, ...: after s completed steps there have been s div m
\* cycles, so a finished run has had k div m of them.
C2_CyclesAtMultiples ==
    number_of_ants > 0 =>
        /\ \A c \in 1..Len(cycles) : cycles[c] = c * number_of_ants
        /\ Len(cycles) = Len(results) \div number_of_ants
        /\ pc = "done" => Len(cycles) = fitness_evaluations \div number_of_ants

\* C3: the end of every reinforcement cycle evaporates the whole store once:
\* every entry becomes its value after the deposits times evaporation_rate.
C3_EvaporationAfterCycle ==
    [][(pc = "endcycle" /\ pc' = "loop") =>
          pheromone_matrix' = Evaporated(pheromone_matrix, evaporation_rate)]_vars

\* C4: every path calculatePath returns during a run is a permutation of
\* 1..N: length N, values distinct and in 1..N, node 0 never chosen.
C4_PathsArePermutations ==
    \A s \in 1..Len(built) : IsPermutation(built[s].path, number_of_nodes)

\* a path was built after a reinforcement cycle had deposited
C4_Witness ==
    /\ number_of_nodes >= 2
    /\ cycles # <<>>
    /\ Len(built) > cycles[1]
    /\ IsPermutation(built[Len(built)].path, number_of_nodes)

\* C5: after every step best_fitness is the minimum of results, and
\* best_path is the list built at the first step that reached it, as it was
\* built; before the first step both are None.
C5_BestIsFirstMinimum ==
    IF results = <<>>
    THEN best_fitness = None /\ best_path = NoPath
    ELSE /\ best_fitness = Min(results)
         /\ best_path \in DOMAIN heap
         /\ heap[best_path] = built[FirstIndex(results, Min(results))].path

\* the ant that built the best path has built a different path since
C5_Witness ==
    /\ results # <<>>
    /\ \E t \in 1..Len(built) :
          /\ t > FirstIndex(results, Min(results))
          /\ built[t].ant = built[FirstIndex(results, Min(results))].ant
          /\ built[t].path # built[FirstIndex(results, Min(results))].path
          /\ results[t] > Min(results)

\* C6: when the weights of the allowed candidates sum to zero, chooseNextNode
\* falls back to a uniform choice and the construction completes; it never
\* fails on the division (NaN probabilities, the ValueError np.random.choice
\* raises, which nothing else in the run raises).
C6_ZeroSumFallsBack == pc # "ValueError"

\* C7: a colony constructed with number_of_ants <= 0, N <= 0 or an
\* evaporation rate outside (0, 1] fails with a validation error at
\* construction: no such colony exists, let alone runs.
InvalidArguments ==
    \/ number_of_ants <= 0
    \/ number_of_nodes <= 0
    \/ ~(evaporation_rate[1] > 0 /\ RLeq(evaporation_rate, <<1, 1>>))

C7_ValidationAtConstruction == InvalidArguments => pc = "ValidationError"

\* C8: an ant whose path has fitness 0 is handled by a fallback in
\* updatePheromones; the cycle never aborts the run with a division error.
C8_ZeroFitnessFallsBack ==
    (number_of_ants > 0 /\ number_of_nodes > 0) => pc # "ZeroDivisionError"

\* C9: step s (from 0) is done by ant s mod m, and at every reinforcement
\* cycle each ant deposits a path it built in the batch just completed,
\* that is after the previous cycle.
C9_DepositsOfThisBatch ==
    number_of_ants > 0 =>
        /\ \A s \in 1..Len(built) : built[s].ant = (s - 1) % number_of_ants
        /\ pc \in {"update", "endcycle"} =>
              \A a \in DOMAIN ants :
                  ants[a].path \in (PreviousCycle + 1)..(i + 1)

====
